---- MODULE Spec2Model ----
(***************************************************************************)
(* gis_lidar_downloader (src/src/main.rs): command-line texts are parsed   *)
(* into a tile identifier, the inclusive grid between two corners is       *)
(* enumerated into links, the links are fetched through                    *)
(* buffer_unordered(CONCURRENT_REQUESTS) and every yielded body is handled *)
(* by the for_each closure that creates and writes the output file.        *)
(*                                                                         *)
(* Text is a sequence of one-character strings while it is being parsed    *)
(* (so that lower-casing, splitting and digit parsing are computed), and a *)
(* string once it has been rendered by a Display implementation.           *)
(***************************************************************************)
EXTENDS Integers, Sequences, FiniteSets, TLC

\* ------------------------------------------------------------------ bounds
\* Largest number of tiles of a grid drawn by Init.
MaxTiles == 4
\* Largest number of body-read failures the network injects in one run.
MaxFailures == 1

\* main.rs:215
CONCURRENT_REQUESTS == 2

\* ------------------------------------------------------------ text helpers
Uppers == <<"A","B","C","D","E","F","G","H","I","J","K","L","M",
            "N","O","P","Q","R","S","T","U","V","W","X","Y","Z">>
Lowers == <<"a","b","c","d","e","f","g","h","i","j","k","l","m",
            "n","o","p","q","r","s","t","u","v","w","x","y","z">>
Digits == <<"0","1","2","3","4","5","6","7","8","9">>

\* char::to_lowercase().next() on the ASCII range
CharToLowercase(c) ==
    IF \E i \in 1..Len(Uppers) : Uppers[i] = c
    THEN Lowers[CHOOSE i \in 1..Len(Uppers) : Uppers[i] = c]
    ELSE c

\* str::to_lowercase
ToLowercase(s) == [i \in 1..Len(s) |-> CharToLowercase(s[i])]

IsDigit(c) == \E i \in 1..Len(Digits) : Digits[i] = c
DigitValue(c) == (CHOOSE i \in 1..Len(Digits) : Digits[i] = c) - 1

\* Display of an unsigned integer: its decimal digits, no padding, no sign
RECURSIVE DisplayUnsigned(_)
DisplayUnsigned(n) ==
    IF n < 10 THEN Digits[n + 1]
    ELSE DisplayUnsigned(n \div 10) \o Digits[(n % 10) + 1]

RECURSIVE DigitsValue(_, _)
DigitsValue(s, acc) ==
    IF s = <<>> THEN acc ELSE DigitsValue(Tail(s), acc * 10 + DigitValue(Head(s)))

\* str::parse::<u32>() and str::parse::<u64>(): an optional leading '+', then
\* one or more decimal digits. (The texts Init draws stay far below u32::MAX,
\* so the overflow error of the parser is not reachable here.)
ParseUnsigned(s) ==
    LET body == IF s # <<>> /\ Head(s) = "+" THEN Tail(s) ELSE s
    IN  IF body # <<>> /\ \A i \in 1..Len(body) : IsDigit(body[i])
        THEN [ok |-> TRUE, val |-> DigitsValue(body, 0)]
        ELSE [ok |-> FALSE, val |-> 0]

\* str::split(sep): the pieces between separators, in order
RECURSIVE Split(_, _, _)
Split(s, sep, cur) ==
    IF s = <<>> THEN <<cur>>
    ELSE IF Head(s) = sep THEN <<cur>> \o Split(Tail(s), sep, <<>>)
    ELSE Split(Tail(s), sep, Append(cur, Head(s)))

\* ------------------------------------------------------- identifier model
\* Outcome of a from_str: "ok" with a value, "err" (Err returned to clap),
\* or "panic" (an expect() failed inside from_str).
Ok(v) == [kind |-> "ok", val |-> v]
Failed(k) == [kind |-> k, val |-> "none"]

PointFormatFromStr(text) ==
    LET s == ToLowercase(text)
    IN  CASE s = <<"g","k","o","t">> -> Ok("GKOT")
          [] s = <<"o","t","r">>     -> Ok("OTR")
          [] s = <<"d","t","m">>     -> Ok("DTM")
          [] OTHER                   -> Failed("err")

\* Faulty variant: DTM rendered as its command-line token
PointFormatDisplayDtmToken(pf) ==
    CASE pf = "GKOT" -> "gkot"
      [] pf = "OTR"  -> "otr"
      [] pf = "DTM"  -> "dtm"

PointFormatDisplay(pf) ==
    CASE pf = "GKOT" -> "gkot"
      [] pf = "OTR"  -> "otr"
      [] pf = "DTM"  -> "dmr1"

FileFormatFromStr(text) ==
    LET s == ToLowercase(text)
    IN  CASE s = <<"z","l","a","s">> -> Ok("ZLAS")
          [] s = <<"l","a","z">>     -> Ok("LAZ")
          [] s = <<"a","s","c">>     -> Ok("ASC")
          [] OTHER                   -> Failed("err")

FileFormatDisplay(ff) ==
    CASE ff = "ZLAS" -> "zlas"
      [] ff = "LAZ"  -> "laz"
      [] ff = "ASC"  -> "asc"

AreaCodeFromStr(text) ==
    IF text = <<>> THEN Failed("panic")
    ELSE LET number == ParseUnsigned(Tail(text))
         IN  IF number.ok
             THEN Ok([letter |-> CharToLowercase(Head(text)), number |-> number.val])
             ELSE Failed("panic")

AreaCodeDisplay(ac) == ac.letter \o "_" \o DisplayUnsigned(ac.number)

CoordinateSystemFromStr(text) ==
    LET s == ToLowercase(text)
    IN  CASE s = <<"d","9","6","t","m">> -> Ok("D96TM")
          [] s = <<"d","4","8","g","k">> -> Ok("D48GK")
          [] OTHER                       -> Failed("err")

CoordinateSystemDisplay(cs) ==
    CASE cs = "D96TM" -> "D96TM"
      [] cs = "D48GK" -> "D48GK"

\* Coordinate::from_str: the first two '_'-separated pieces, each a u64;
\* both slots (system, point_format) are None.
CoordinateFromStr(text) ==
    LET parts == Split(text, "_", <<>>)
        px == ParseUnsigned(parts[1])
    IN  IF ~px.ok \/ Len(parts) < 2 THEN Failed("panic")
        ELSE LET py == ParseUnsigned(parts[2])
             IN  IF ~py.ok THEN Failed("panic")
                 ELSE Ok([x |-> px.val, y |-> py.val,
                          system |-> "None", point_format |-> "None"])

\* Display for Coordinate; rendering with an unbound slot panics
CoordinateDisplay(c) ==
    IF c.system = "None" \/ c.point_format = "None" THEN "panic"
    ELSE LET coordinate_system == CASE c.system = "D96TM" -> "TM"
                                    [] c.system = "D48GK" -> "GK"
             format == CASE c.point_format = "GKOT" -> ""
                         [] c.point_format = "OTR"  -> "R"
                         [] c.point_format = "DTM"  -> "1"
         IN  coordinate_system \o format \o "_" \o DisplayUnsigned(c.x)
                 \o "_" \o DisplayUnsigned(c.y)

\* Link::new
LinkNew(point_format, file_format, area_code, coordinate_system, coordinate) ==
    [url |-> "http://gis.arso.gov.si/lidar/" \o PointFormatDisplay(point_format)
                 \o "/" \o AreaCodeDisplay(area_code)
                 \o "/" \o CoordinateSystemDisplay(coordinate_system)
                 \o "/" \o CoordinateDisplay(coordinate)
                 \o "." \o FileFormatDisplay(file_format),
     point_format |-> point_format,
     file_format |-> file_format,
     area_code |-> area_code,
     coordinate_system |-> coordinate_system,
     coordinate |-> coordinate]

\* ------------------------------------------------------------------ inputs
\* The decimal text of n, as characters (the command line is text).
RECURSIVE UnsignedText(_)
UnsignedText(n) ==
    IF n < 10 THEN <<Digits[n + 1]>>
    ELSE Append(UnsignedText(n \div 10), Digits[(n % 10) + 1])

CoordinateText(cx, cy) == UnsignedText(cx) \o <<"_">> \o UnsignedText(cy)

XValues == 100..(99 + MaxTiles)
YValues == 200..201

PointFormatTexts == {<<"g","k","o","t">>, <<"O","T","R">>, <<"D","t","m">>}
FileFormatTexts == {<<"z","l","a","s">>, <<"L","A","Z">>, <<"a","s","c">>}
AreaCodeTexts == {<<"b","1","4">>, <<"C","7">>}
CoordinateSystemTexts == {<<"D","9","6","T","M">>, <<"d","4","8","g","k">>}

\* Number of (x, y) with a <= x <= b and c <= y <= d.
GridSize(a, c, b, d) ==
    (IF b >= a THEN b - a + 1 ELSE 0) * (IF d >= c THEN d - c + 1 ELSE 0)

\* Command lines every argument of which parses.
GoodArgv ==
    { [point_format |-> p, file_format |-> f, area_code |-> a,
       coordinate_system |-> s,
       first_coord |-> CoordinateText(c[1], c[2]),
       second_coord |-> CoordinateText(c[3], c[4])] :
         p \in PointFormatTexts, f \in FileFormatTexts, a \in AreaCodeTexts,
         s \in CoordinateSystemTexts,
         c \in { q \in XValues \X YValues \X XValues \X YValues :
                     GridSize(q[1], q[2], q[3], q[4]) <= MaxTiles } }

DefaultArgv ==
    [point_format |-> <<"g","k","o","t">>, file_format |-> <<"z","l","a","s">>,
     area_code |-> <<"b","1","4">>, coordinate_system |-> <<"D","9","6","T","M">>,
     first_coord |-> CoordinateText(510, 74),
     second_coord |-> CoordinateText(510, 74)]

\* Command lines with exactly one argument that does not parse.
BadArgv ==
    { [DefaultArgv EXCEPT !.point_format = <<"f","o","o">>],
      [DefaultArgv EXCEPT !.file_format = <<"t","i","f">>],
      [DefaultArgv EXCEPT !.area_code = <<>>],
      [DefaultArgv EXCEPT !.area_code = <<"b","x">>],
      [DefaultArgv EXCEPT !.coordinate_system = <<"w","g","s">>],
      [DefaultArgv EXCEPT !.first_coord = <<"5","1","0">>],
      [DefaultArgv EXCEPT !.second_coord = <<"a","_","1">>] }

\* ------------------------------------------------------------------- state
VARIABLES
    pc,          \* position of main: start, parse, outer, inner, fetch, done, exit
    argv,        \* the command line's argument texts
    args,        \* Args after Args::parse and lines 264-265
    outputDir,   \* whether create_dir_all("output") has been called
    exitCode,    \* process exit status once the run has ended, else -1
    x, y,        \* the loop variables of lines 271-272
    links,       \* Vec<Link>
    stdout,      \* lines printed by println!
    stderr,      \* lines printed by eprintln! and by a panic
    nextLink,    \* number of links stream::iter has handed out
    inProgress,  \* futures held by buffer_unordered: link index -> await point
    pos,         \* number of items enumerate() has yielded
    files,       \* files under output/: path -> content
    requests,    \* link indices whose GET was issued, in issue order
    results,     \* link index -> "ok" | "err", for fetches that completed
    fsLog        \* File::create and write_all calls, in call order

vars == <<pc, argv, args, outputDir, exitCode, x, y, links, stdout, stderr,
          nextLink, inProgress, pos, files, requests, results, fsLog>>

NoArgs == [parsed |-> FALSE]
EmptyMap == [k \in {} |-> 0]

Init ==
    /\ pc = "start"
    /\ argv \in GoodArgv \cup BadArgv
    /\ args = NoArgs
    /\ outputDir = FALSE
    /\ exitCode = -1
    /\ x = 0
    /\ y = 0
    /\ links = <<>>
    /\ stdout = <<>>
    /\ stderr = <<>>
    /\ nextLink = 0
    /\ inProgress = EmptyMap
    /\ pos = 0
    /\ files = EmptyMap
    /\ requests = <<>>
    /\ results = EmptyMap
    /\ fsLog = <<>>

\* ------------------------------------------------------------- main, setup
\* line 261
CreateOutputDir ==
    /\ pc = "start"
    /\ outputDir' = TRUE
    /\ pc' = "parse"
    /\ UNCHANGED <<argv, args, exitCode, x, y, links, stdout, stderr, nextLink,
                   inProgress, pos, files, requests, results, fsLog>>

\* The from_str outcome of every argument, in the field order of Args.
ParseResults ==
    <<PointFormatFromStr(argv.point_format),
      FileFormatFromStr(argv.file_format),
      AreaCodeFromStr(argv.area_code),
      CoordinateSystemFromStr(argv.coordinate_system),
      CoordinateFromStr(argv.first_coord),
      CoordinateFromStr(argv.second_coord)>>

ParseSucceeds == \A i \in 1..Len(ParseResults) : ParseResults[i].kind = "ok"

\* lines 263-265: Args::parse, then the coordinate system bound to both corners
ParseArgsOk ==
    /\ pc = "parse"
    /\ ParseSucceeds
    /\ LET r == ParseResults
       IN  args' = [parsed |-> TRUE,
                    point_format |-> r[1].val,
                    file_format |-> r[2].val,
                    area_code |-> r[3].val,
                    coordinate_system |-> r[4].val,
                    first_coord |-> [r[5].val EXCEPT !.system = r[4].val],
                    second_coord |-> [r[6].val EXCEPT !.system = r[4].val]]
    /\ pc' = "outer"
    /\ x' = ParseResults[5].val.x
    /\ UNCHANGED <<argv, outputDir, exitCode, y, links, stdout, stderr, nextLink,
                   inProgress, pos, files, requests, results, fsLog>>

\* line 263: clap reports an Err and exits with status 2; an expect() that
\* fails inside from_str panics, status 101. Either way a line goes to stderr.
ParseArgsFail ==
    /\ pc = "parse"
    /\ ~ParseSucceeds
    /\ LET bad == CHOOSE i \in 1..Len(ParseResults) :
                     /\ ParseResults[i].kind # "ok"
                     /\ \A j \in 1..(i - 1) : ParseResults[j].kind = "ok"
       IN  exitCode' = IF ParseResults[bad].kind = "err" THEN 2 ELSE 101
    /\ stderr' = Append(stderr, "error: argument parsing failed")
    /\ pc' = "exit"
    /\ UNCHANGED <<argv, args, outputDir, x, y, links, stdout, nextLink,
                   inProgress, pos, files, requests, results, fsLog>>

\* ------------------------------------------------------- grid enumeration
\* Faulty variant: the corners put in order before the range is built
OuterRangeHasSwapped(v) ==
    v <= (IF args.first_coord.x > args.second_coord.x
          THEN args.first_coord.x ELSE args.second_coord.x)
\* Faulty variant: first_coord.y .. second_coord.y, the end excluded
InnerRangeHasExclusive(v) == v < args.second_coord.y

\* line 271: first_coord.x ..= second_coord.x
OuterRangeHas(v) == v <= args.second_coord.x
\* line 272: first_coord.y ..= second_coord.y
InnerRangeHas(v) == v <= args.second_coord.y

\* line 271, an iteration of the outer loop begins
OuterNext ==
    /\ pc = "outer"
    /\ OuterRangeHas(x)
    /\ y' = args.first_coord.y
    /\ pc' = "inner"
    /\ UNCHANGED <<argv, args, outputDir, exitCode, x, links, stdout, stderr,
                   nextLink, inProgress, pos, files, requests, results, fsLog>>

\* lines 273-287, one iteration of the inner loop
InnerBody ==
    /\ pc = "inner"
    /\ InnerRangeHas(y)
    /\ LET link == LinkNew(args.point_format, args.file_format, args.area_code,
                           args.coordinate_system,
                           [x |-> x, y |-> y,
                            system |-> args.coordinate_system,
                            point_format |-> args.point_format])
       IN  /\ stdout' = Append(stdout, link.url)
           /\ links' = Append(links, link)
    /\ y' = y + 1
    /\ UNCHANGED <<pc, argv, args, outputDir, exitCode, x, stderr, nextLink,
                   inProgress, pos, files, requests, results, fsLog>>

\* line 288, the inner range is exhausted
InnerExit ==
    /\ pc = "inner"
    /\ ~InnerRangeHas(y)
    /\ x' = x + 1
    /\ pc' = "outer"
    /\ UNCHANGED <<argv, args, outputDir, exitCode, y, links, stdout, stderr,
                   nextLink, inProgress, pos, files, requests, results, fsLog>>

\* line 289, the outer range is exhausted
OuterExit ==
    /\ pc = "outer"
    /\ ~OuterRangeHas(x)
    /\ pc' = "fetch"
    /\ UNCHANGED <<argv, args, outputDir, exitCode, x, y, links, stdout, stderr,
                   nextLink, inProgress, pos, files, requests, results, fsLog>>

\* ----------------------------------------------------------- fetch pipeline
\* What the server holds for a URL, and the error a failed fetch carries.
ServerBody(url) == "bytes of " \o url
FetchError(url) == "error for url (" \o url \o ")"

\* lines 315-318: output.join(format!("{}_{}.{}", x, y, point_format))
OutputPath(link) ==
    "output/" \o DisplayUnsigned(link.coordinate.x) \o "_"
        \o DisplayUnsigned(link.coordinate.y) \o "." \o PointFormatDisplay(link.point_format)

\* Faulty variant: the pipeline already driven from inside the loops
PipelineRunningInLoop == pc \in {"inner", "fetch"}
\* lines 293-326 run once the loops of lines 271-289 are over
PipelineRunning == pc = "fetch"

\* Faulty variant: one future too many is pulled
BufferHasRoomOffByOne == Cardinality(DOMAIN inProgress) <= CONCURRENT_REQUESTS
\* buffer_unordered(n): a future is pulled from the stream while fewer than n
\* are held
BufferHasRoom == Cardinality(DOMAIN inProgress) < CONCURRENT_REQUESTS

\* stream::iter(&links) has an item left
StreamHasNext == nextLink < Len(links)

CanFill == PipelineRunning /\ BufferHasRoom /\ StreamHasNext

\* lines 293-305: buffer_unordered pulls the next link's future and polls it;
\* client.get(&link.url).send() issues the request.
StreamNext ==
    /\ CanFill
    /\ nextLink' = nextLink + 1
    /\ inProgress' = inProgress @@ ((nextLink + 1) :> "send")
    /\ requests' = Append(requests, nextLink + 1)
    /\ UNCHANGED <<pc, argv, args, outputDir, exitCode, x, y, links, stdout,
                   stderr, pos, files, results, fsLog>>

\* buffer_unordered polls the held futures only once it cannot pull another.
CanPoll(i) == PipelineRunning /\ ~CanFill /\ i \in DOMAIN inProgress

\* lines 297-300: send() resolved with a response; bytes() is awaited next
SendOk(i) ==
    /\ CanPoll(i)
    /\ inProgress[i] = "send"
    /\ inProgress' = [inProgress EXCEPT ![i] = "body"]
    /\ UNCHANGED <<pc, argv, args, outputDir, exitCode, x, y, links, stdout,
                   stderr, nextLink, pos, files, requests, results, fsLog>>

\* lines 300-301: send() resolved with an error; expect() panics with the
\* link's URL in the message and the process ends with status 101.
SendErr(i) ==
    /\ CanPoll(i)
    /\ inProgress[i] = "send"
    /\ stderr' = Append(stderr, "Failed to get file from link " \o links[i].url)
    /\ pc' = "exit"
    /\ exitCode' = 101
    /\ UNCHANGED <<argv, args, outputDir, x, y, links, stdout, nextLink,
                   inProgress, pos, files, requests, results, fsLog>>

\* lines 312-324, the for_each closure on the item (pos, body): the link is
\* links[pos]; its file is created, then the body is written or the error
\* printed.
HandleBody(body) ==
    LET link == links[pos + 1]
        path == OutputPath(link)
    IN  IF body.ok
        THEN /\ files' = (path :> body.bytes) @@ files
             /\ fsLog' = fsLog \o <<[op |-> "create", path |-> path],
                                    [op |-> "write", path |-> path,
                                     bytes |-> body.bytes]>>
             /\ stderr' = stderr
        ELSE /\ files' = (path :> "") @@ files
             /\ fsLog' = Append(fsLog, [op |-> "create", path |-> path])
             /\ stderr' = Append(stderr, "Got an error: " \o body.error)

\* line 302: bytes() of future i resolved; buffer_unordered yields it,
\* enumerate() numbers it and the closure handles it.
BodyComplete(i, body) ==
    /\ CanPoll(i)
    /\ inProgress[i] = "body"
    /\ inProgress' = [k \in DOMAIN inProgress \ {i} |-> inProgress[k]]
    /\ results' = (i :> (IF body.ok THEN "ok" ELSE "err")) @@ results
    /\ HandleBody(body)
    /\ pos' = pos + 1
    /\ UNCHANGED <<pc, argv, args, outputDir, exitCode, x, y, links, stdout,
                   nextLink, requests>>

Failures == Cardinality({i \in DOMAIN results : results[i] = "err"})

BodyOk(i) ==
    BodyComplete(i, [ok |-> TRUE, bytes |-> ServerBody(links[i].url)])

BodyErr(i) ==
    /\ Failures < MaxFailures
    /\ BodyComplete(i, [ok |-> FALSE, error |-> FetchError(links[i].url)])

\* lines 326-328: the stream is exhausted, for_each resolves, main returns
Finish ==
    /\ pc = "fetch"
    /\ ~StreamHasNext
    /\ DOMAIN inProgress = {}
    /\ pc' = "done"
    /\ exitCode' = 0
    /\ UNCHANGED <<argv, args, outputDir, x, y, links, stdout, stderr, nextLink,
                   inProgress, pos, files, requests, results, fsLog>>

Next ==
    \/ CreateOutputDir
    \/ ParseArgsOk
    \/ ParseArgsFail
    \/ OuterNext
    \/ InnerBody
    \/ InnerExit
    \/ OuterExit
    \/ StreamNext
    \/ \E i \in DOMAIN inProgress : SendOk(i)
    \/ \E i \in DOMAIN inProgress : SendErr(i)
    \/ \E i \in DOMAIN inProgress : BodyOk(i)
    \/ \E i \in DOMAIN inProgress : BodyErr(i)
    \/ Finish

Spec == Init /\ [][Next]_vars

\* ================================================================== claims
\* Vocabulary of the claims, read off the logs.
SeqRange(q) == {q[k] : k \in 1..Len(q)}
Occurrences(q, e) == Cardinality({k \in 1..Len(q) : q[k] = e})
LinkIndices == 1..Len(links)
\* requests issued and not yet completed
InFlight == {i \in SeqRange(requests) : i \notin DOMAIN results}
WriteEvents == {k \in 1..Len(fsLog) : fsLog[k].op = "write"}
CreateEvents == {k \in 1..Len(fsLog) : fsLog[k].op = "create"}
RunEnded == pc \in {"done", "exit"}
CornersInOrder ==
    /\ args.first_coord.x <= args.second_coord.x
    /\ args.first_coord.y <= args.second_coord.y

\* C1: every body written to output/{x}_{y}.{pf-token} is the body the server
\* returned for the URL of tile (x, y), whatever the completion order.
C1_BodyPairedWithOwnTile ==
    \A k \in WriteEvents :
        \E i \in LinkIndices :
            /\ fsLog[k].path = OutputPath(links[i])
            /\ fsLog[k].bytes = ServerBody(links[i].url)

\* C2: in every reachable state at most 2 (CONCURRENT_REQUESTS) requests have
\* been issued and not completed, so a third is started only after a
\* completion.
C2_AtMostTwoInFlight ==
    /\ CONCURRENT_REQUESTS = 2
    /\ Cardinality(InFlight) <= 2

C2_Witness ==
    /\ Cardinality(InFlight) = 2
    /\ Cardinality(DOMAIN results) >= 1
    /\ StreamHasNext

\* C3: a fetch error on one tile (sending the request or reading the body) is
\* reported and skipped: the run does not abort, every tile is fetched, and
\* exactly the tiles whose fetch succeeded have an output file, with one
\* error line per failed tile.
C3_FetchErrorSkipped ==
    /\ (args.parsed /\ pc = "exit") => exitCode = 0
    /\ pc = "done" =>
          /\ SeqRange(requests) = LinkIndices
          /\ DOMAIN files = {OutputPath(links[i]) :
                                i \in {j \in LinkIndices : results[j] = "ok"}}
          /\ Len(stderr) = Cardinality({j \in LinkIndices : results[j] = "err"})

\* C4: handling a failed result prints a diagnostic line and leaves the set
\* of files under output/ and their contents as they were.
C4_FailedResultTouchesNoFile ==
    [][(pc = "fetch" /\ pc' = "fetch" /\ Len(stderr') > Len(stderr))
          => files' = files]_vars

\* The token tables of C5, as the claim lists them.
C5_PfToken(pf) == CASE pf = "GKOT" -> "gkot" [] pf = "OTR" -> "otr" [] pf = "DTM" -> "dmr1"
C5_PfInfix(pf) == CASE pf = "GKOT" -> "" [] pf = "OTR" -> "R" [] pf = "DTM" -> "1"
C5_CsInfix(cs) == CASE cs = "D96TM" -> "TM" [] cs = "D48GK" -> "GK"
C5_FfToken(ff) == CASE ff = "ZLAS" -> "zlas" [] ff = "LAZ" -> "laz" [] ff = "ASC" -> "asc"
C5_IsExample(l) ==
    /\ l.point_format = "OTR"
    /\ l.file_format = "LAZ"
    /\ l.area_code = [letter |-> "c", number |-> 7]
    /\ l.coordinate_system = "D48GK"
    /\ l.coordinate.x = 100
    /\ l.coordinate.y = 200

\* C5: the URL of every link is
\* http://gis.arso.gov.si/lidar/{pf-token}/{letter}_{number}/{cs-token}/{cs-infix}{pf-infix}_{x}_{y}.{ff-token}
\* with the tokens of the claim's tables; (OTR, LAZ, c7, D48GK, (100,200))
\* gives .../otr/c_7/D48GK/GKR_100_200.laz.
C5_UrlLayout ==
    \A i \in LinkIndices :
        LET l == links[i]
        IN  /\ l.coordinate_system \in {"D96TM", "D48GK"}
            /\ l.url = "http://gis.arso.gov.si/lidar/" \o C5_PfToken(l.point_format)
                         \o "/" \o l.area_code.letter \o "_" \o ToString(l.area_code.number)
                         \o "/" \o l.coordinate_system
                         \o "/" \o C5_CsInfix(l.coordinate_system) \o C5_PfInfix(l.point_format)
                         \o "_" \o ToString(l.coordinate.x)
                         \o "_" \o ToString(l.coordinate.y)
                         \o "." \o C5_FfToken(l.file_format)
            /\ C5_IsExample(l) =>
                   l.url = "http://gis.arso.gov.si/lidar/otr/c_7/D48GK/GKR_100_200.laz"

C5_Witness ==
    \E i \in LinkIndices :
        /\ C5_IsExample(links[i])
        /\ links[i].url = "http://gis.arso.gov.si/lidar/otr/c_7/D48GK/GKR_100_200.laz"

\* C6: with first=(a,c), second=(b,d), a<=b and c<=d, the enumeration is the
\* (b-a+1)*(d-c+1) pairs of the rectangle, each once, x outer and y inner:
\* the i-th link is (a + (i-1) div (d-c+1), c + (i-1) mod (d-c+1)).
C6_GridRowMajor ==
    (args.parsed /\ CornersInOrder) =>
        LET a == args.first_coord.x
            b == args.second_coord.x
            c == args.first_coord.y
            d == args.second_coord.y
            h == d - c + 1
        IN  /\ \A i \in LinkIndices :
                  /\ links[i].coordinate.x = a + ((i - 1) \div h)
                  /\ links[i].coordinate.y = c + ((i - 1) % h)
            /\ Len(links) <= (b - a + 1) * h
            /\ pc \in {"fetch", "done", "exit"} => Len(links) = (b - a + 1) * h

C6_Witness ==
    /\ pc = "done"
    /\ args.parsed
    /\ args.second_coord.x = args.first_coord.x + 1
    /\ args.second_coord.y = args.first_coord.y + 1
    /\ Len(links) = 4

\* C7: the URLs are printed in enumeration order, and the last tile's URL is
\* printed before the first HTTP request is issued.
C7_UrlsPrintedBeforeFetch ==
    /\ stdout = [i \in LinkIndices |-> links[i].url]
    /\ requests # <<>> =>
          /\ args.parsed
          /\ Len(stdout) = GridSize(args.first_coord.x, args.first_coord.y,
                                    args.second_coord.x, args.second_coord.y)

C7_Witness ==
    /\ Len(requests) = 1
    /\ DOMAIN results = {}
    /\ Len(stdout) = 4

\* C8: when argument parsing fails the run ends with a non-zero exit and the
\* output directory is never created.
C8_NoDirectoryOnParseFailure ==
    ~ParseSucceeds =>
        /\ ~outputDir
        /\ pc = "exit" => exitCode # 0

\* C9: every enumerated tile is fetched by exactly one GET, never retried and
\* never skipped; a tile whose fetch succeeded has its body written exactly
\* once, to its own path; no output path is created or written twice.
C9_EachTileConsumedOnce ==
    /\ \A i \in LinkIndices : Occurrences(requests, i) <= 1
    /\ \A k1, k2 \in CreateEvents : fsLog[k1].path = fsLog[k2].path => k1 = k2
    /\ \A k1, k2 \in WriteEvents : fsLog[k1].path = fsLog[k2].path => k1 = k2
    /\ (args.parsed /\ RunEnded) =>
          \A i \in LinkIndices :
              /\ Occurrences(requests, i) = 1
              /\ (i \in DOMAIN results /\ results[i] = "ok") =>
                    Cardinality({k \in WriteEvents :
                                    /\ fsLog[k].path = OutputPath(links[i])
                                    /\ fsLog[k].bytes = ServerBody(links[i].url)}) = 1

\* C10: when first.x > second.x or first.y > second.y the enumeration is
\* empty: nothing is printed, requested or created, and the run completes
\* with exit status 0.
C10_SwappedCornersEmpty ==
    (args.parsed /\ ~CornersInOrder) =>
        /\ links = <<>>
        /\ stdout = <<>>
        /\ stderr = <<>>
        /\ requests = <<>>
        /\ fsLog = <<>>
        /\ DOMAIN files = {}
        /\ pc \in {"outer", "inner", "fetch", "done"}
        /\ pc = "done" => exitCode = 0
        /\ pc # "done" => ENABLED Next

C10_Witness ==
    /\ pc = "done"
    /\ args.parsed
    /\ args.first_coord.x > args.second_coord.x
    /\ args.first_coord.y <= args.second_coord.y
    /\ links = <<>>
    /\ exitCode = 0

====
